---- MODULE Spec2Model ----
(***************************************************************************)
(* Model of createListingComposable                                        *)
(* (packages/composables/src/factories/createListingComposable.ts).        *)
(*                                                                         *)
(* One composable instance exists per listing key.  The vuex store holds   *)
(* two slots per key (initial listing, applied listing), the router holds  *)
(* the navigation query, and every instance has its two refs loading and   *)
(* loadingMore.  initSearch, search and loadMore are async: each is split  *)
(* at its single await into the synchronous prefix (the call is started    *)
(* and searchMethod invoked) and the continuation that runs when the       *)
(* promise of searchMethod settles (resolved with a result, or rejected    *)
(* with an error).                                                         *)
(***************************************************************************)
EXTENDS Integers, Sequences, FiniteSets, TLC

VARIABLES
    initialListings,  \* vuexStore.getters.getInitialListings: key -> slot
    appliedListings,  \* vuexStore.getters.getAppliedListings: key -> slot
    loading,          \* ref loading of the instance of each key
    loadingMore,      \* ref loadingMore of the instance of each key
    searchDefaults,   \* searchDefaults the instance of each key was created with
    query,            \* router.currentRoute.query
    navPending,       \* the navigation requested by router.replace and not settled yet
    calls,            \* the calls awaiting searchMethod, in the order they were started
    last              \* the step taken last (what the caller or a test observes of it)

vars == <<initialListings, appliedListings, loading, loadingMore, searchDefaults,
          query, navPending, calls, last>>

----------------------------------------------------------------------------
(* Bounds of the model.                                                    *)

\* calls that may await searchMethod at the same time
MaxPending == 2
\* longest element sequence loadMore may accumulate
MaxElems == 2

----------------------------------------------------------------------------
(* JavaScript values.  A value carries its type tag, so that truthiness,   *)
(* null, undefined and objects are told apart as the code tells them.      *)

JsUndefined == [t |-> "undefined"]
JsNull == [t |-> "null"]
JsNumber(n) == [t |-> "number", v |-> n]
JsString(s) == [t |-> "string", v |-> s]
JsBoolean(b) == [t |-> "boolean", v |-> b]
JsObject(o) == [t |-> "object", v |-> o]

\* ToBoolean: what `!x`, `x || y` and `x && y` test
Truthy(x) ==
    CASE x.t = "undefined" -> FALSE
      [] x.t = "null" -> FALSE
      [] x.t = "number" -> x.v # 0
      [] x.t = "string" -> x.v # ""
      [] x.t = "boolean" -> x.v
      [] OTHER -> TRUE

\* x || y
JsOr(x, y) == IF Truthy(x) THEN x ELSE y

(* A plain object with string keys of "any" values (criteria, the          *)
(* navigation query, currentFilters, searchDefaults): the sequence of its  *)
(* own properties in insertion order, which is the order Object.keys and   *)
(* the spread operator walk them in.                                       *)
KV(k, v) == [k |-> k, v |-> v]

ObjHas(o, k) == \E i \in 1..Len(o) : o[i].k = k

\* o[k]
ObjGet(o, k) ==
    IF ObjHas(o, k) THEN o[CHOOSE i \in 1..Len(o) : o[i].k = k].v ELSE JsUndefined

\* o[k] = v: an existing key keeps its place, a new key is appended
ObjSet(o, k, v) ==
    IF ObjHas(o, k)
    THEN [i \in 1..Len(o) |-> IF o[i].k = k THEN KV(k, v) ELSE o[i]]
    ELSE Append(o, KV(k, v))

\* Object.keys(o)
ObjKeys(o) == [i \in 1..Len(o) |-> o[i].k]

\* { ...a, ...b }
RECURSIVE Spread(_, _)
Spread(a, b) ==
    IF b = <<>> THEN a ELSE Spread(ObjSet(a, Head(b).k, Head(b).v), Tail(b))

\* x.name for a value x that is not null or undefined
Prop(x, name) == IF x.t = "object" THEN ObjGet(x.v, name) ELSE JsUndefined

(* lodash merge(dst, src): the own properties of src are merged into dst   *)
(* recursively; a plain object of src is merged into the object dst holds  *)
(* under the key (into a fresh one when dst holds none), any other value   *)
(* overwrites, and an undefined value of src is skipped when dst has the   *)
(* key.                                                                    *)
RECURSIVE Merge(_, _)
Merge(dst, src) ==
    IF src = <<>> THEN dst
    ELSE LET e == Head(src)
             d == ObjGet(dst, e.k)
             nv == IF e.v.t = "object"
                   THEN JsObject(Merge(IF d.t = "object" THEN d.v ELSE <<>>, e.v.v))
                   ELSE e.v
         IN  Merge(IF e.v.t = "undefined" /\ ObjHas(dst, e.k)
                   THEN dst
                   ELSE ObjSet(dst, e.k, nv),
                   Tail(src))

\* Faulty variant: a shallow merge, { ...searchDefaults, ...criteria }.
MergeCriteriaShallow(defaults, criteria) ==
    Spread(IF defaults.t = "object" THEN Spread(<<>>, defaults.v) ELSE <<>>, criteria)

\* merge({}, searchDefaults, criteria)
MergeCriteria(defaults, criteria) ==
    Merge(IF defaults.t = "object" THEN Merge(<<>>, defaults.v) ELSE <<>>, criteria)

----------------------------------------------------------------------------
(* Listings.  A ProductListingResult is a function from the fields it has  *)
(* to their values: elements (a sequence), page, total and limit           *)
(* (numbers) and currentFilters (a plain object).  {} has no field.        *)

EmptyListing == [f \in {} |-> 0]

ListingHas(l, f) == f \in DOMAIN l

\* l.f || d for a numeric field
NumberOr(l, f, d) == IF ListingHas(l, f) /\ l[f] # 0 THEN l[f] ELSE d

\* { ...l, page: page, elements: elements }
WithPageAndElements(l, page, elements) ==
    [f \in DOMAIN l \cup {"page", "elements"} |->
        IF f = "page" THEN page ELSE IF f = "elements" THEN elements ELSE l[f]]

----------------------------------------------------------------------------
(* The instances and the inputs the model draws.                           *)

ListingKeys == {"k1", "k2"}

PriceFilter == JsObject(<<KV("min", JsNumber(5)), KV("max", JsNumber(20))>>)

ResultPage1 ==
    [elements |-> <<1>>, page |-> 1, total |-> 3, limit |-> 2, aggregations |-> "agg1",
     currentFilters |-> <<KV("navigationId", JsString("n1")), KV("price", PriceFilter)>>]
ResultPage2 ==
    [elements |-> <<2>>, page |-> 2, total |-> 4,
     currentFilters |-> <<KV("manufacturer", JsString("m1"))>>]

\* what searchMethod may resolve with
Results == {ResultPage1, ResultPage2}

\* what searchMethod may reject with
Errors == {"e1", "e2"}

CriteriaPage == <<KV("p", JsNumber(2)), KV("order", JsString("name-asc"))>>

\* the criteria callers pass to initSearch and search
Criterias == {CriteriaPage}

DefaultsLimit == JsObject(<<KV("limit", JsNumber(2)), KV("p", JsNumber(1))>>)

----------------------------------------------------------------------------
(* The derived views of the instance of key k.                             *)

getInitialListing(k) ==
    IF Truthy(initialListings[k]) THEN initialListings[k].v ELSE EmptyListing

appliedListing(k) == appliedListings[k]

\* Faulty variant: the initial listing is preferred to the applied one.
getCurrentListingInitialFirst(k) ==
    IF Truthy(initialListings[k]) THEN initialListings[k].v
    ELSE IF Truthy(appliedListing(k)) THEN appliedListing(k).v ELSE EmptyListing

getCurrentListing(k) ==
    IF Truthy(appliedListing(k)) THEN appliedListing(k).v ELSE getInitialListing(k)

getElements(k) ==
    IF ListingHas(getCurrentListing(k), "elements")
    THEN getCurrentListing(k).elements
    ELSE <<>>

getTotal(k) == NumberOr(getCurrentListing(k), "total", 0)

getCurrentPage(k) == NumberOr(getCurrentListing(k), "page", 1)

\* Faulty variant: the limit of the search defaults is skipped.
getLimitSkipsDefaults(k) ==
    IF ListingHas(getCurrentListing(k), "limit") /\ getCurrentListing(k).limit # 0
    THEN getCurrentListing(k).limit
    ELSE 10

getLimit(k) ==
    LET d == IF searchDefaults[k].t = "object"
             THEN ObjGet(searchDefaults[k].v, "limit")
             ELSE JsUndefined
    IN  IF ListingHas(getCurrentListing(k), "limit") /\ getCurrentListing(k).limit # 0
        THEN getCurrentListing(k).limit
        ELSE IF Truthy(d) THEN d.v ELSE 10

\* Faulty variant: the quotient is rounded down.
MathFloorDiv(a, b) == a \div b

\* Math.ceil(a / b) for a >= 0 and b > 0
MathCeilDiv(a, b) == (a + b - 1) \div b

getTotalPagesCount(k) == MathCeilDiv(getTotal(k), getLimit(k))

\* Faulty variant: the key navigationId is passed through like any other key.
RECURSIVE FilterKeysKeepsNavigationId(_, _, _)
FilterKeysKeepsNavigationId(result, currentFilters, keys) ==
    IF keys = <<>> THEN result
    ELSE LET objectKey == Head(keys)
             value == ObjGet(currentFilters, objectKey)
             withMin == IF Truthy(Prop(value, "min"))
                        THEN ObjSet(result, "min-price", Prop(value, "min"))
                        ELSE result
             withMax == IF Truthy(Prop(value, "max"))
                        THEN ObjSet(withMin, "max-price", Prop(value, "max"))
                        ELSE withMin
             next == IF ~Truthy(value) THEN result
                     ELSE IF objectKey = "price" THEN withMax
                     ELSE IF objectKey = "p" THEN result
                     ELSE ObjSet(result, objectKey, value)
         IN  FilterKeysKeepsNavigationId(next, currentFilters, Tail(keys))

\* the forEach of getCurrentFilters over the keys left to visit
RECURSIVE FilterKeys(_, _, _)
FilterKeys(result, currentFilters, keys) ==
    IF keys = <<>> THEN result
    ELSE LET objectKey == Head(keys)
             value == ObjGet(currentFilters, objectKey)
             withMin == IF Truthy(Prop(value, "min"))
                        THEN ObjSet(result, "min-price", Prop(value, "min"))
                        ELSE result
             withMax == IF Truthy(Prop(value, "max"))
                        THEN ObjSet(withMin, "max-price", Prop(value, "max"))
                        ELSE withMin
             next == IF ~Truthy(value) THEN result
                     ELSE IF objectKey = "navigationId" THEN result
                     ELSE IF objectKey = "price" THEN withMax
                     ELSE IF objectKey = "p" THEN result
                     ELSE ObjSet(result, objectKey, value)
         IN  FilterKeys(next, currentFilters, Tail(keys))

\* { ...getCurrentListing.value.currentFilters, ...router.currentRoute.query }
MergedFilters(k) ==
    Spread(Spread(<<>>, IF ListingHas(getCurrentListing(k), "currentFilters")
                        THEN getCurrentListing(k).currentFilters
                        ELSE <<>>),
           query)

getCurrentFilters(k) == FilterKeys(<<>>, MergedFilters(k), ObjKeys(MergedFilters(k)))

----------------------------------------------------------------------------
(* The calls in flight.                                                    *)

RemoveAt(s, i) == [j \in 1..(Len(s) - 1) |-> IF j < i THEN s[j] ELSE s[j + 1]]

\* options?.preventRouteChange !== true
ChangeRoute(options) ==
    ~(options.t = "object" /\ ObjGet(options.v, "preventRouteChange") = JsBoolean(TRUE))

PreventRouteChange == JsObject(<<KV("preventRouteChange", JsBoolean(TRUE))>>)
AllowRouteChange == JsObject(<<KV("preventRouteChange", JsBoolean(FALSE))>>)

\* the options callers pass to search
SearchOptions == {JsUndefined, PreventRouteChange, AllowRouteChange}

(* What is kept of a call until it settles, for the properties that       *)
(* relate the end of a call to its start.  watch says what to keep:        *)
(* "args" keeps what the call was called with and the request it passed    *)
(* to searchMethod, "store" keeps the two store slots of the key as they   *)
(* were before the call.  Each is a sequence of at most one record.        *)
Note(k, criteria, options, request, watch) ==
    [args |-> IF "args" \in watch
              THEN <<[criteria |-> criteria, options |-> options, request |-> request]>>
              ELSE <<>>,
     before |-> IF "store" \in watch
                THEN <<[initial |-> initialListings[k], applied |-> appliedListings[k]]>>
                ELSE <<>>]

(* The record of a call that awaits searchMethod: its instance, the        *)
(* function awaiting, the note, and the result of a search on the same key *)
(* that was started later and resolved while this one waited (overtakenBy, *)
(* a sequence of at most one).                                             *)
Call(k, op, criteria, options, request, watch) ==
    [key |-> k, op |-> op, note |-> Note(k, criteria, options, request, watch),
     overtakenBy |-> <<>>]

\* what is seen of the start of a call: searchMethod was invoked with request
Started(k, op, via, criteria, options, request) ==
    [ev |-> "started", key |-> k, op |-> op, via |-> via, criteria |-> criteria,
     options |-> options, request |-> request]

Resolved(c, result) ==
    [ev |-> "resolved", key |-> c.key, op |-> c.op, call |-> c, result |-> result,
     hadApplied |-> Truthy(appliedListings[c.key])]

\* catch (e) { throw e; }: the caller sees the call reject with thrown
Rejected(c, error) ==
    [ev |-> "rejected", key |-> c.key, op |-> c.op, call |-> c, error |-> error,
     thrown |-> error]

----------------------------------------------------------------------------
(* Initial state: an empty store, no call in flight, an empty query.       *)

Init ==
    /\ initialListings = [k \in ListingKeys |-> JsUndefined]
    /\ appliedListings = [k \in ListingKeys |-> JsUndefined]
    /\ loading = [k \in ListingKeys |-> FALSE]
    /\ loadingMore = [k \in ListingKeys |-> FALSE]
    /\ searchDefaults = [k \in ListingKeys |-> DefaultsLimit]
    /\ query = <<>>
    /\ navPending = <<>>
    /\ calls = <<>>
    /\ last = [ev |-> "init", key |-> "none"]

----------------------------------------------------------------------------
(* setInitialListing: commits SET_INITIAL_LISTING and resets the applied   *)
(* listing of the key to null.                                             *)

\* Faulty variant: the applied listing is kept.
setInitialListingKeepsApplied(k, initialListing) ==
    /\ initialListings' = [initialListings EXCEPT ![k] = JsObject(initialListing)]
    /\ UNCHANGED appliedListings

setInitialListing(k, initialListing) ==
    /\ initialListings' = [initialListings EXCEPT ![k] = JsObject(initialListing)]
    /\ appliedListings' = [appliedListings EXCEPT ![k] = JsNull]

SetInitialListing(k, initialListing) ==
    /\ setInitialListing(k, initialListing)
    /\ last' = [ev |-> "setInitialListing", key |-> k, listing |-> initialListing,
                hadApplied |-> Truthy(appliedListings[k])]
    /\ UNCHANGED <<loading, loadingMore, searchDefaults, query, navPending, calls>>

----------------------------------------------------------------------------
(* initSearch.                                                             *)

\* up to the await: loading is set and searchMethod invoked
initSearch(k, criteria, watch) ==
    LET searchCriteria == MergeCriteria(searchDefaults[k], criteria)
    IN  /\ Len(calls) < MaxPending
        /\ loading' = [loading EXCEPT ![k] = TRUE]
        /\ calls' = Append(calls, Call(k, "initSearch", criteria, JsUndefined,
                                       searchCriteria, watch))
        /\ last' = Started(k, "initSearch", "initSearch", criteria, JsUndefined,
                           searchCriteria)
        /\ UNCHANGED <<initialListings, appliedListings, loadingMore, searchDefaults,
                       query, navPending>>

InitSearch(k, criteria, watch) == initSearch(k, criteria, watch)

\* searchMethod resolved with result: setInitialListing(result), then finally
InitSearchResolved(i, result) ==
    LET c == calls[i]
    IN  /\ c.op = "initSearch"
        /\ setInitialListing(c.key, result)
        /\ loading' = [loading EXCEPT ![c.key] = FALSE]
        /\ calls' = RemoveAt(calls, i)
        /\ last' = Resolved(c, result)
        /\ UNCHANGED <<loadingMore, searchDefaults, query, navPending>>

\* Faulty variant: no finally, loading stays set when searchMethod rejects.
InitSearchRejectedKeepsLoading(i, error) ==
    LET c == calls[i]
    IN  /\ c.op = "initSearch"
        /\ calls' = RemoveAt(calls, i)
        /\ last' = Rejected(c, error)
        /\ UNCHANGED <<initialListings, appliedListings, loading, loadingMore,
                       searchDefaults, query, navPending>>

\* searchMethod rejected with error: catch rethrows it, then finally
InitSearchRejected(i, error) ==
    LET c == calls[i]
    IN  /\ c.op = "initSearch"
        /\ loading' = [loading EXCEPT ![c.key] = FALSE]
        /\ calls' = RemoveAt(calls, i)
        /\ last' = Rejected(c, error)
        /\ UNCHANGED <<initialListings, appliedListings, loadingMore, searchDefaults,
                       query, navPending>>

----------------------------------------------------------------------------
(* search.                                                                 *)

\* Faulty variant: the route replace is requested whatever the options say.
searchAlwaysReplaces(k, criteria, options, via, watch) ==
    LET searchCriteria == MergeCriteria(searchDefaults[k], criteria)
    IN  /\ Len(calls) < MaxPending
        /\ loading' = [loading EXCEPT ![k] = TRUE]
        /\ navPending' = <<[key |-> k, query |-> Spread(<<>>, criteria)]>>
        /\ calls' = Append(calls, Call(k, "search", criteria, options, searchCriteria,
                                       watch))
        /\ last' = Started(k, "search", via, criteria, options, searchCriteria)
        /\ UNCHANGED <<initialListings, appliedListings, loadingMore, searchDefaults,
                       query>>

(* Up to the await: loading is set, the route replace is requested unless  *)
(* prevented (a navigation still pending is superseded by it) and          *)
(* searchMethod is invoked.  via names the function the caller called.     *)
search(k, criteria, options, via, watch) ==
    LET searchCriteria == MergeCriteria(searchDefaults[k], criteria)
    IN  /\ Len(calls) < MaxPending
        /\ loading' = [loading EXCEPT ![k] = TRUE]
        /\ navPending' = IF ChangeRoute(options)
                         THEN <<[key |-> k, query |-> Spread(<<>>, criteria)]>>
                         ELSE navPending
        /\ calls' = Append(calls, Call(k, "search", criteria, options, searchCriteria,
                                       watch))
        /\ last' = Started(k, "search", via, criteria, options, searchCriteria)
        /\ UNCHANGED <<initialListings, appliedListings, loadingMore, searchDefaults,
                       query>>

Search(k, criteria, options, watch) == search(k, criteria, options, "search", watch)

\* the calls in flight, those a search resolving at place i overtakes marked
Overtaking(i, result) ==
    [j \in 1..Len(calls) |->
        IF j < i /\ calls[j].op = "search" /\ calls[j].key = calls[i].key
        THEN [calls[j] EXCEPT !.overtakenBy = <<result>>]
        ELSE calls[j]]

\* Faulty variant: the result is written to the applied slot of every key.
SearchResolvedAllKeys(i, result) ==
    LET c == calls[i]
    IN  /\ c.op = "search"
        /\ appliedListings' = [k \in ListingKeys |-> JsObject(result)]
        /\ loading' = [loading EXCEPT ![c.key] = FALSE]
        /\ calls' = RemoveAt(Overtaking(i, result), i)
        /\ last' = Resolved(c, result)
        /\ UNCHANGED <<initialListings, loadingMore, searchDefaults, query, navPending>>

\* Faulty variant: loading is reset only when no other initSearch or search call of the
\* key is still pending.
SearchResolvedCountsPending(i, result) ==
    LET c == calls[i]
    IN  /\ c.op = "search"
        /\ appliedListings' = [appliedListings EXCEPT ![c.key] = JsObject(result)]
        /\ loading' = [loading EXCEPT ![c.key] =
                          \E j \in 1..Len(calls) :
                             j # i /\ calls[j].key = c.key
                                   /\ calls[j].op \in {"initSearch", "search"}]
        /\ calls' = RemoveAt(Overtaking(i, result), i)
        /\ last' = Resolved(c, result)
        /\ UNCHANGED <<initialListings, loadingMore, searchDefaults, query, navPending>>

\* Faulty variant: the result of a call that was overtaken is dropped as stale.
SearchResolvedDropsStale(i, result) ==
    LET c == calls[i]
    IN  /\ c.op = "search"
        /\ appliedListings' = IF c.overtakenBy # <<>> THEN appliedListings
                              ELSE [appliedListings EXCEPT ![c.key] = JsObject(result)]
        /\ loading' = [loading EXCEPT ![c.key] = FALSE]
        /\ calls' = RemoveAt(Overtaking(i, result), i)
        /\ last' = Resolved(c, result)
        /\ UNCHANGED <<initialListings, loadingMore, searchDefaults, query, navPending>>

\* searchMethod resolved with result: appliedListing.value = result, then finally
SearchResolved(i, result) ==
    LET c == calls[i]
    IN  /\ c.op = "search"
        /\ appliedListings' = [appliedListings EXCEPT ![c.key] = JsObject(result)]
        /\ loading' = [loading EXCEPT ![c.key] = FALSE]
        /\ calls' = RemoveAt(Overtaking(i, result), i)
        /\ last' = Resolved(c, result)
        /\ UNCHANGED <<initialListings, loadingMore, searchDefaults, query, navPending>>

\* Faulty variant: a failed search resets the applied listing.
SearchRejectedClearsApplied(i, error) ==
    LET c == calls[i]
    IN  /\ c.op = "search"
        /\ appliedListings' = [appliedListings EXCEPT ![c.key] = JsNull]
        /\ loading' = [loading EXCEPT ![c.key] = FALSE]
        /\ calls' = RemoveAt(calls, i)
        /\ last' = Rejected(c, error)
        /\ UNCHANGED <<initialListings, loadingMore, searchDefaults, query, navPending>>

\* searchMethod rejected with error: catch rethrows it, then finally
SearchRejected(i, error) ==
    LET c == calls[i]
    IN  /\ c.op = "search"
        /\ loading' = [loading EXCEPT ![c.key] = FALSE]
        /\ calls' = RemoveAt(calls, i)
        /\ last' = Rejected(c, error)
        /\ UNCHANGED <<initialListings, appliedListings, loadingMore, searchDefaults,
                       query, navPending>>

\* { ...router.currentRoute.query, order }
sortingOrderQuery(order) == ObjSet(Spread(<<>>, query), "order", order)

changeCurrentSortingOrder(k, order, watch) ==
    search(k, sortingOrderQuery(order), JsUndefined, "changeCurrentSortingOrder", watch)

ChangeCurrentSortingOrder(k, order, watch) == changeCurrentSortingOrder(k, order, watch)

\* Faulty variant: p: pageNumber ?? 1, only an absent page number becomes 1.
currentPageQueryNullish(pageNumber) ==
    ObjSet(Spread(<<>>, query), "p",
           IF pageNumber.t \in {"undefined", "null"} THEN JsNumber(1) ELSE pageNumber)

\* { ...router.currentRoute.query, p: pageNumber || 1 }
currentPageQuery(pageNumber) ==
    ObjSet(Spread(<<>>, query), "p", JsOr(pageNumber, JsNumber(1)))

changeCurrentPage(k, pageNumber, watch) ==
    search(k, currentPageQuery(pageNumber), JsUndefined, "changeCurrentPage", watch)

ChangeCurrentPage(k, pageNumber, watch) == changeCurrentPage(k, pageNumber, watch)

----------------------------------------------------------------------------
(* loadMore.                                                               *)

\* Faulty variant: the next page is counted from the p of the navigation query.
loadMoreQueryFromRoute(k) ==
    ObjSet(Spread(<<>>, query), "p",
           JsNumber((IF ObjGet(query, "p").t = "number" THEN ObjGet(query, "p").v ELSE 1)
                       + 1))

\* { ...router.currentRoute.query, p: getCurrentPage.value + 1 }
loadMoreQuery(k) == ObjSet(Spread(<<>>, query), "p", JsNumber(getCurrentPage(k) + 1))

\* up to the await: loadingMore is set and searchMethod invoked for the next page
loadMore(k, watch) ==
    LET q == loadMoreQuery(k)
        searchCriteria == MergeCriteria(searchDefaults[k], q)
    IN  /\ Len(calls) < MaxPending
        /\ loadingMore' = [loadingMore EXCEPT ![k] = TRUE]
        /\ calls' = Append(calls, Call(k, "loadMore", q, JsUndefined, searchCriteria,
                                       watch))
        /\ last' = Started(k, "loadMore", "loadMore", q, JsUndefined, searchCriteria)
        /\ UNCHANGED <<initialListings, appliedListings, loading, searchDefaults,
                       query, navPending>>

LoadMore(k, watch) == loadMore(k, watch)

\* Faulty variant: the new listing is built from the result, not the current one.
LoadMoreResolvedFromResult(i, result) ==
    LET c == calls[i]
        elements == getElements(c.key) \o result.elements
    IN  /\ c.op = "loadMore"
        /\ Len(elements) <= MaxElems
        /\ appliedListings' =
             [appliedListings EXCEPT ![c.key] =
                JsObject(WithPageAndElements(result, result.page, elements))]
        /\ loadingMore' = [loadingMore EXCEPT ![c.key] = FALSE]
        /\ calls' = RemoveAt(calls, i)
        /\ last' = Resolved(c, result)
        /\ UNCHANGED <<initialListings, loading, searchDefaults, query, navPending>>

\* Faulty variant: while no applied listing exists the new listing is stored as the
\* initial one.
LoadMoreResolvedIntoInitial(i, result) ==
    LET c == calls[i]
        elements == getElements(c.key) \o result.elements
        listing == JsObject(WithPageAndElements(getCurrentListing(c.key), result.page,
                                                elements))
    IN  /\ c.op = "loadMore"
        /\ Len(elements) <= MaxElems
        /\ IF Truthy(appliedListings[c.key])
           THEN /\ appliedListings' = [appliedListings EXCEPT ![c.key] = listing]
                /\ UNCHANGED initialListings
           ELSE /\ initialListings' = [initialListings EXCEPT ![c.key] = listing]
                /\ UNCHANGED appliedListings
        /\ loadingMore' = [loadingMore EXCEPT ![c.key] = FALSE]
        /\ calls' = RemoveAt(calls, i)
        /\ last' = Resolved(c, result)
        /\ UNCHANGED <<loading, searchDefaults, query, navPending>>

\* Faulty variant: the elements of the result are put in front of the current ones.
LoadMoreResolvedPrepends(i, result) ==
    LET c == calls[i]
        elements == result.elements \o getElements(c.key)
    IN  /\ c.op = "loadMore"
        /\ Len(elements) <= MaxElems
        /\ appliedListings' =
             [appliedListings EXCEPT ![c.key] =
                JsObject(WithPageAndElements(getCurrentListing(c.key), result.page,
                                             elements))]
        /\ loadingMore' = [loadingMore EXCEPT ![c.key] = FALSE]
        /\ calls' = RemoveAt(calls, i)
        /\ last' = Resolved(c, result)
        /\ UNCHANGED <<initialListings, loading, searchDefaults, query, navPending>>

(* searchMethod resolved with result: the applied listing becomes the      *)
(* current listing with the page of the result and the elements of the     *)
(* result appended, then finally.                                          *)
LoadMoreResolved(i, result) ==
    LET c == calls[i]
        elements == getElements(c.key) \o result.elements
    IN  /\ c.op = "loadMore"
        /\ Len(elements) <= MaxElems
        /\ appliedListings' =
             [appliedListings EXCEPT ![c.key] =
                JsObject(WithPageAndElements(getCurrentListing(c.key), result.page,
                                             elements))]
        /\ loadingMore' = [loadingMore EXCEPT ![c.key] = FALSE]
        /\ calls' = RemoveAt(calls, i)
        /\ last' = Resolved(c, result)
        /\ UNCHANGED <<initialListings, loading, searchDefaults, query, navPending>>

\* Faulty variant: loadingMore is not reset when searchMethod rejects.
LoadMoreRejectedKeepsFlag(i, error) ==
    LET c == calls[i]
    IN  /\ c.op = "loadMore"
        /\ calls' = RemoveAt(calls, i)
        /\ last' = Rejected(c, error)
        /\ UNCHANGED <<initialListings, appliedListings, loading, loadingMore,
                       searchDefaults, query, navPending>>

\* searchMethod rejected with error: catch rethrows it, then finally
LoadMoreRejected(i, error) ==
    LET c == calls[i]
    IN  /\ c.op = "loadMore"
        /\ loadingMore' = [loadingMore EXCEPT ![c.key] = FALSE]
        /\ calls' = RemoveAt(calls, i)
        /\ last' = Rejected(c, error)
        /\ UNCHANGED <<initialListings, appliedListings, loading, searchDefaults,
                       query, navPending>>

----------------------------------------------------------------------------
(* The router settles the pending navigation: it is confirmed (the query   *)
(* becomes the requested one) or it fails, which .catch(() => {}) drops.   *)

RouterConfirm ==
    /\ navPending # <<>>
    /\ query' = navPending[1].query
    /\ navPending' = <<>>
    /\ last' = [ev |-> "routerConfirm", key |-> navPending[1].key]
    /\ UNCHANGED <<initialListings, appliedListings, loading, loadingMore,
                   searchDefaults, calls>>

\* Faulty variant: the failed replace ends the searches of the key that await searchMethod.
RouterAbortEndsSearch ==
    /\ navPending # <<>>
    /\ navPending' = <<>>
    /\ calls' = SelectSeq(calls, LAMBDA c : ~(c.op = "search" /\ c.key = navPending[1].key))
    /\ loading' = [loading EXCEPT ![navPending[1].key] = FALSE]
    /\ last' = [ev |-> "routerAbort", key |-> navPending[1].key]
    /\ UNCHANGED <<initialListings, appliedListings, loadingMore, searchDefaults, query>>

RouterAbort ==
    /\ navPending # <<>>
    /\ navPending' = <<>>
    /\ last' = [ev |-> "routerAbort", key |-> navPending[1].key]
    /\ UNCHANGED <<initialListings, appliedListings, loading, loadingMore,
                   searchDefaults, query, calls>>

----------------------------------------------------------------------------
(* Spec: the instance of one listing key, its calls overlapping.           *)

PageNumbers == {JsNumber(2)}
Unwatched == {}
SortingOrders == {JsString("name-asc")}

\* searchMethod settles a call in flight, with one of results or one of errors
Settle(results, errors) ==
    \/ \E i \in 1..Len(calls), result \in results :
          \/ InitSearchResolved(i, result)
          \/ SearchResolved(i, result)
          \/ LoadMoreResolved(i, result)
    \/ \E i \in 1..Len(calls), error \in errors :
          \/ InitSearchRejected(i, error)
          \/ SearchRejected(i, error)
          \/ LoadMoreRejected(i, error)

Next ==
    \/ \E L \in Results : SetInitialListing("k1", L)
    \/ \E criteria \in Criterias : InitSearch("k1", criteria, Unwatched)
    \/ \E criteria \in Criterias, options \in SearchOptions :
          Search("k1", criteria, options, Unwatched)
    \/ LoadMore("k1", Unwatched)
    \/ \E pageNumber \in PageNumbers : ChangeCurrentPage("k1", pageNumber, Unwatched)
    \/ \E order \in SortingOrders : ChangeCurrentSortingOrder("k1", order, Unwatched)
    \/ Settle(Results, Errors)
    \/ RouterConfirm
    \/ RouterAbort

Spec == Init /\ [][Next]_vars

----------------------------------------------------------------------------
(* SpecSearch: the searches of one instance and the router, every call     *)
(* keeping what it was called with until it settles.                       *)

WatchArgs == {"args"}

NextSearch ==
    \/ \E L \in Results : SetInitialListing("k1", L)
    \/ \E criteria \in Criterias, options \in SearchOptions :
          Search("k1", criteria, options, WatchArgs)
    \/ \E pageNumber \in PageNumbers : ChangeCurrentPage("k1", pageNumber, WatchArgs)
    \/ \E order \in SortingOrders : ChangeCurrentSortingOrder("k1", order, WatchArgs)
    \/ \E i \in 1..Len(calls), result \in Results : SearchResolved(i, result)
    \/ \E i \in 1..Len(calls), error \in Errors : SearchRejected(i, error)
    \/ RouterConfirm
    \/ RouterAbort

SpecSearch == Init /\ [][NextSearch]_vars

----------------------------------------------------------------------------
(* SpecStore: initSearch, search (the route kept) and loadMore of one       *)
(* instance overlapping, every call keeping the store slots of its key as  *)
(* it found them.                                                          *)

WatchStore == {"store"}

NextStore ==
    \/ \E criteria \in Criterias : InitSearch("k1", criteria, WatchStore)
    \/ \E criteria \in Criterias : Search("k1", criteria, PreventRouteChange, WatchStore)
    \/ LoadMore("k1", WatchStore)
    \/ Settle({ResultPage2}, Errors)

SpecStore == Init /\ [][NextStore]_vars

----------------------------------------------------------------------------
(* SpecKeys: the instances of two listing keys side by side, sharing the   *)
(* store and the router.                                                   *)

NextKeys ==
    \/ \E k \in ListingKeys : SetInitialListing(k, ResultPage1)
    \/ \E k \in ListingKeys : Search(k, CriteriaPage, JsUndefined, Unwatched)
    \/ LoadMore("k2", Unwatched)
    \/ Settle({ResultPage2}, {"e1"})
    \/ RouterConfirm
    \/ RouterAbort

SpecKeys == Init /\ [][NextKeys]_vars

----------------------------------------------------------------------------
(* SpecFilters: getCurrentFilters over the current filters a listing may   *)
(* carry and the query the current route may hold when the instance is     *)
(* created.                                                                *)

MaxFilterKeys == 2

PriceNoMin == JsObject(<<KV("min", JsNumber(0)), KV("max", JsNumber(20))>>)

FilterPool ==
    {KV("navigationId", JsString("n1")), KV("p", JsNumber(2)),
     KV("price", PriceFilter), KV("price", PriceNoMin),
     KV("min-price", JsNumber(7)),
     KV("manufacturer", JsString("m1")), KV("manufacturer", JsString(""))}

\* the objects of at most n keys over the pool, in every insertion order
RECURSIVE FilterObjectsOf(_)
FilterObjectsOf(n) ==
    IF n = 0 THEN {<<>>}
    ELSE FilterObjectsOf(n - 1) \cup
         {Append(o, e) : o \in {x \in FilterObjectsOf(n - 1) : Len(x) = n - 1},
                         e \in FilterPool} 

FilterObjects ==
    {o \in FilterObjectsOf(MaxFilterKeys) :
        \A i, j \in 1..Len(o) : i # j => o[i].k # o[j].k}

FilterListings == {EmptyListing} \cup {[currentFilters |-> f] : f \in FilterObjects}

InitFilters ==
    /\ initialListings = [k \in ListingKeys |-> JsUndefined]
    /\ appliedListings = [k \in ListingKeys |-> JsUndefined]
    /\ loading = [k \in ListingKeys |-> FALSE]
    /\ loadingMore = [k \in ListingKeys |-> FALSE]
    /\ searchDefaults = [k \in ListingKeys |-> DefaultsLimit]
    /\ query \in FilterObjects
    /\ navPending = <<>>
    /\ calls = <<>>
    /\ last = [ev |-> "init", key |-> "none"]

\* a component reads the computed getCurrentFilters
ReadCurrentFilters(k) ==
    /\ last' = [ev |-> "getCurrentFilters", key |-> k, result |-> getCurrentFilters(k)]
    /\ UNCHANGED <<initialListings, appliedListings, loading, loadingMore,
                   searchDefaults, query, navPending, calls>>

NextFilters ==
    \/ \E initialListing \in FilterListings : SetInitialListing("k1", initialListing)
    \/ ReadCurrentFilters("k1")

SpecFilters == InitFilters /\ [][NextFilters]_vars

----------------------------------------------------------------------------
(* SpecPages: the pages count over the totals and limits a listing may     *)
(* carry and the search defaults an instance may be created with.          *)

MaxTotal == 25

DefaultsNoLimit == JsObject(<<KV("p", JsNumber(1))>>)
DefaultsZeroLimit == JsObject(<<KV("limit", JsNumber(0))>>)
SearchDefaults == {JsUndefined, DefaultsLimit, DefaultsNoLimit, DefaultsZeroLimit}

Limits == {0, 1, 2, 3, 10}

PagesListings ==
    {EmptyListing} \cup {[total |-> t] : t \in 0..MaxTotal}
        \cup {[total |-> t, limit |-> l] : t \in 0..MaxTotal, l \in Limits}

ResultShoes == [total |-> 3, elements |-> <<1, 2, 3>>, page |-> 1, limit |-> 10]

InitPages ==
    /\ initialListings = [k \in ListingKeys |-> JsUndefined]
    /\ appliedListings = [k \in ListingKeys |-> JsUndefined]
    /\ loading = [k \in ListingKeys |-> FALSE]
    /\ loadingMore = [k \in ListingKeys |-> FALSE]
    /\ \E defaults \in SearchDefaults :
          searchDefaults = [k \in ListingKeys |-> defaults]
    /\ query = <<>>
    /\ navPending = <<>>
    /\ calls = <<>>
    /\ last = [ev |-> "init", key |-> "none"]

NextPages ==
    \/ \E initialListing \in PagesListings : SetInitialListing("k1", initialListing)
    \/ InitSearch("k1", CriteriaPage, Unwatched)
    \/ \E i \in 1..Len(calls) : InitSearchResolved(i, ResultShoes)
    \/ \E i \in 1..Len(calls), error \in Errors : InitSearchRejected(i, error)

SpecPages == InitPages /\ [][NextPages]_vars

----------------------------------------------------------------------------
(* Properties.  A step that starts a call lengthens calls, a step that     *)
(* settles one shortens it; last' tells which call and how.                *)

SettlesCall == Len(calls') < Len(calls)
StartsCall == Len(calls') > Len(calls)

(* C1: after setInitialListing(L), and after the one a successful          *)
(* initSearch performs with the search result as L, getCurrentListing is L *)
(* and the applied listing of the key is null, whatever was applied        *)
(* before.                                                                 *)
C1_InitialListingResetsApplied ==
    /\ last.ev = "setInitialListing" =>
          /\ getCurrentListing(last.key) = last.listing
          /\ appliedListing(last.key) = JsNull
    /\ (last.ev = "resolved" /\ last.op = "initSearch") =>
          /\ getCurrentListing(last.key) = last.result
          /\ appliedListing(last.key) = JsNull

\* an initSearch has resolved on a key that had an applied listing
C1_Witness ==
    /\ last.ev = "resolved" /\ last.op = "initSearch" /\ last.hadApplied
    /\ appliedListing(last.key) = JsNull
    /\ getCurrentListing(last.key) = last.result

(* C2 as claimed: when a search(C) has resolved, getCurrentListing is the   *)
(* result, loading is false and, unless preventRouteChange is true, the    *)
(* navigation query is C.  (That the query is untouched by a call with     *)
(* preventRouteChange is part of C2_SearchCommits.)                        *)
C2_Original ==
    (last.ev = "resolved" /\ last.op = "search") =>
        /\ getCurrentListing(last.key) = last.result
        /\ loading[last.key] = FALSE
        /\ ChangeRoute(last.call.note.args[1].options) =>
              query = last.call.note.args[1].criteria

(* C2 amended: a search(C) that starts requests the replace of the         *)
(* navigation query by C unless preventRouteChange is true, and then       *)
(* requests none; when it resolves, getCurrentListing is the result and    *)
(* loading is false.  No step of the call changes the navigation query     *)
(* itself: the replace is not awaited and is settled by the router, before *)
(* or after the call returns, or never (it fails or is superseded).        *)
C2_SearchCommits ==
    [][/\ (StartsCall /\ last'.op = "search") =>
             /\ query' = query
             /\ navPending' = IF ChangeRoute(last'.options)
                              THEN <<[key |-> last'.key, query |-> last'.criteria]>>
                              ELSE navPending
       /\ (SettlesCall /\ last'.ev = "resolved" /\ last'.op = "search") =>
             /\ \A k \in ListingKeys :
                   last'.key = k => getCurrentListing(k)' = last'.result
             /\ loading'[last'.key] = FALSE
             /\ query' = query
             /\ navPending' = navPending]_vars

\* a search(C) with route change has resolved and the navigation query is not C
C2_Witness ==
    /\ last.ev = "resolved" /\ last.op = "search"
    /\ ChangeRoute(last.call.note.args[1].options)
    /\ query # last.call.note.args[1].criteria
    /\ getCurrentListing(last.key) = last.result
    /\ loading[last.key] = FALSE

(* C3: a loadMore that resolves with R makes the applied listing the       *)
(* current listing of before the commit with elements = its elements       *)
(* followed by those of R and page = R.page; it has every other field the  *)
(* prior current listing had, with the same value, and no further field.   *)
C3_LoadMoreAppends ==
    [][(SettlesCall /\ last'.ev = "resolved" /\ last'.op = "loadMore") =>
         LET k == last'.key
             prior == getCurrentListing(k)
             R == last'.result
             a == appliedListings'[k]
         IN  /\ a.t = "object"
             /\ a.v.elements =
                  (IF "elements" \in DOMAIN prior THEN prior.elements ELSE <<>>)
                     \o R.elements
             /\ a.v.page = R.page
             /\ DOMAIN a.v = DOMAIN prior \cup {"elements", "page"}
             /\ \A f \in DOMAIN prior \ {"elements", "page"} : a.v[f] = prior[f]]_vars

\* page 2 has been loaded onto page 1: total, limit, aggregations stay those of page 1
C3_Witness ==
    /\ last.ev = "resolved" /\ last.op = "loadMore" /\ last.result = ResultPage2
    /\ getCurrentListing(last.key) =
          [ResultPage1 EXCEPT !.elements = <<1, 2>>, !.page = 2]

Functions == {"initSearch", "search", "loadMore"}

\* the flag of the function awaiting: loadingMore for loadMore, else loading
Flag(k, op) == IF op = "loadMore" THEN loadingMore[k] ELSE loading[k]

(* C4 as claimed: when searchMethod rejects, the call rejects with the     *)
(* same error, its flag is false, and both store slots of the key are      *)
(* what they were before the call.                                         *)
C4_Original ==
    last.ev = "rejected" =>
        /\ last.thrown = last.error
        /\ Flag(last.key, last.op) = FALSE
        /\ initialListings[last.key] = last.call.note.before[1].initial
        /\ appliedListings[last.key] = last.call.note.before[1].applied

(* C4 amended: when searchMethod rejects, the call rejects with the same   *)
(* error and its flag is false; no step of the call, its start or the      *)
(* handling of the rejection, writes a store slot, so both slots are what  *)
(* they were right before the rejection was handled.  (Another call on     *)
(* the key may have committed while this one was pending.)                 *)
C4_RejectionLeavesStore ==
    [][/\ StartsCall =>
             /\ initialListings' = initialListings
             /\ appliedListings' = appliedListings
       /\ (SettlesCall /\ last'.ev = "rejected") =>
             /\ last'.thrown = last'.error
             /\ \A k \in ListingKeys, op \in Functions :
                   (last'.key = k /\ last'.op = op) => Flag(k, op)' = FALSE
             /\ initialListings' = initialListings
             /\ appliedListings' = appliedListings]_vars

\* a call rejected after another call on its key had changed the applied listing
C4_Witness ==
    /\ last.ev = "rejected"
    /\ last.thrown = last.error
    /\ Flag(last.key, last.op) = FALSE
    /\ appliedListings[last.key] # last.call.note.before[1].applied

(* C5: when a search resolves, the applied listing is its result, also     *)
(* when a search started later on the same key has resolved before it: of  *)
(* two overlapping searches the one resolving last wins.  No call is       *)
(* blocked, queued or cancelled: a search can start while loading is true  *)
(* and every search in flight can resolve.                                 *)
C5_LastResolvedSearchWins ==
    /\ (last.ev = "resolved" /\ last.op = "search") =>
          appliedListings[last.key] = JsObject(last.result)
    /\ Len(calls) < MaxPending =>
          ENABLED Search("k1", CriteriaPage, JsUndefined, Unwatched)
    /\ \A i \in 1..Len(calls) :
          calls[i].op = "search" =>
             \A result \in Results : ENABLED SearchResolved(i, result)

\* the search started first resolved last, with another result, and its result stands
C5_Witness ==
    /\ last.ev = "resolved" /\ last.op = "search"
    /\ last.call.overtakenBy # <<>>
    /\ last.call.overtakenBy[1] # last.result
    /\ appliedListings[last.key] = JsObject(last.result)

(* C6: getCurrentListing is the applied listing of the key when there is   *)
(* one, else the initial listing when there is one, else {}.               *)
C6_CurrentListingPrecedence ==
    \A k \in ListingKeys :
        getCurrentListing(k) =
            IF appliedListings[k].t = "object" THEN appliedListings[k].v
            ELSE IF initialListings[k].t = "object" THEN initialListings[k].v
            ELSE EmptyListing

\* an applied listing shadows a different initial listing
C6_Witness ==
    /\ appliedListings["k1"].t = "object"
    /\ initialListings["k1"].t = "object"
    /\ appliedListings["k1"].v # initialListings["k1"].v
    /\ getCurrentListing("k1") = appliedListings["k1"].v

(* C7: the applied listing of a key goes from present to absent only in a  *)
(* step that assigns the initial listing of that key (setInitialListing,   *)
(* or an initSearch resolving), and it is null then; no other step, of a   *)
(* search or a loadMore, resolved or rejected, clears it.                  *)
C7_AppliedClearedOnlyByInitial ==
    [][\A k \in ListingKeys :
         (appliedListings[k].t = "object" /\ appliedListings'[k].t # "object") =>
            /\ appliedListings'[k] = JsNull
            /\ last'.key = k
            /\ \/ last'.ev = "setInitialListing"
               \/ last'.ev = "resolved" /\ last'.op = "initSearch"]_vars

\* setInitialListing has cleared an applied listing
C7_Witness ==
    /\ last.ev = "setInitialListing" /\ last.hadApplied
    /\ appliedListings[last.key] = JsNull

\* what the instance of key k shows of its own listing and flags
OwnViews(k) ==
    <<initialListings[k], appliedListings[k], getCurrentListing(k), getElements(k),
      getTotal(k), getCurrentPage(k), getLimit(k), getTotalPagesCount(k),
      loading[k], loadingMore[k]>>

\* what the instance of key k shows or would send that is read from the router
RouteViews(k) ==
    <<getCurrentFilters(k),
      MergeCriteria(searchDefaults[k], loadMoreQuery(k)),
      [pageNumber \in PageNumbers |->
          MergeCriteria(searchDefaults[k], currentPageQuery(pageNumber))],
      [order \in SortingOrders |->
          MergeCriteria(searchDefaults[k], sortingOrderQuery(order))]>>

(* C8 as claimed: no step of the instance of one key (a call, its          *)
(* settling, or the navigation it requested being confirmed or failing)    *)
(* changes anything the instance of another key shows or would send.       *)
C8_Original ==
    [][\A k1, k2 \in ListingKeys :
         (k1 # k2 /\ last'.key = k1) =>
            /\ OwnViews(k2)' = OwnViews(k2)
            /\ RouteViews(k2)' = RouteViews(k2)]_vars

(* C8 amended: no step of the instance of one key changes the initial or   *)
(* applied listing of another key, the views derived from them alone       *)
(* (current listing, elements, total, page, limit, pages count) or its     *)
(* loading flags.  (The navigation query is shared: the current filters    *)
(* and the requests of loadMore and change* of the other instance follow   *)
(* it.)                                                                    *)
C8_KeysShareOnlyTheRoute ==
    [][\A k1, k2 \in ListingKeys :
         (k1 # k2 /\ last'.key = k1) => OwnViews(k2)' = OwnViews(k2)]_vars

\* the route replace of a search on k1 was confirmed and shows in the filters of k2
C8_Witness ==
    /\ last.ev = "routerConfirm" /\ last.key = "k1"
    /\ initialListings["k2"].t = "object"
    /\ appliedListings["k1"].t = "object"
    /\ ObjGet(getCurrentFilters("k2"), "order") = JsString("name-asc")

\* position of key k among the keys of o, 0 when absent
KeyIndex(o, k) == IF ObjHas(o, k) THEN CHOOSE i \in 1..Len(o) : o[i].k = k ELSE 0

\* the keys getCurrentFilters treats specially
SpecialKeys == {"navigationId", "p", "price", "min-price", "max-price"}

\* nothing getCurrentFilters must drop is in r, and every ordinary truthy key of m is
DropsAndPassesThrough(r, m) ==
    /\ ~ObjHas(r, "navigationId") /\ ~ObjHas(r, "p") /\ ~ObjHas(r, "price")
    /\ \A i \in 1..Len(r) : Truthy(r[i].v)
    /\ \A i \in 1..Len(r) : r[i].k \in SpecialKeys \/ ObjHas(m, r[i].k)
    /\ \A i \in 1..Len(m) :
         m[i].k \notin SpecialKeys =>
            IF Truthy(m[i].v) THEN ObjHas(r, m[i].k) /\ ObjGet(r, m[i].k) = m[i].v
            ELSE ~ObjHas(r, m[i].k)

FromPrice(m, part) == Truthy(ObjGet(m, "price")) /\ Truthy(Prop(ObjGet(m, "price"), part))

Literal(m, flat) == Truthy(ObjGet(m, flat))

(* C9 as claimed: getCurrentFilters has no key navigationId, p or price    *)
(* and no falsy value; a truthy price object gives min-price = min and     *)
(* max-price = max, each only when truthy; every other truthy key of the   *)
(* merge of the current filters and the query, min-price and max-price     *)
(* included, is passed through unchanged.                                  *)
C9_Original ==
    \A k \in ListingKeys :
       LET r == getCurrentFilters(k)
           m == MergedFilters(k)
       IN  /\ DropsAndPassesThrough(r, m)
           /\ \A flat \in {"min-price", "max-price"} :
                LET part == IF flat = "min-price" THEN "min" ELSE "max"
                IN  /\ FromPrice(m, part) =>
                          ObjGet(r, flat) = Prop(ObjGet(m, "price"), part)
                    /\ Literal(m, flat) => ObjGet(r, flat) = ObjGet(m, flat)
                    /\ ObjHas(r, flat) => FromPrice(m, part) \/ Literal(m, flat)

(* C9 amended: as claimed, except that when the merge holds both a truthy  *)
(* price part and a truthy literal key min-price (max-price), the flat key *)
(* takes the value of whichever of price and the literal key comes later   *)
(* in the key order of the merge.                                          *)
C9_FiltersFlattened ==
    \A k \in ListingKeys :
       LET r == getCurrentFilters(k)
           m == MergedFilters(k)
       IN  /\ DropsAndPassesThrough(r, m)
           /\ \A flat \in {"min-price", "max-price"} :
                LET part == IF flat = "min-price" THEN "min" ELSE "max"
                    min == Prop(ObjGet(m, "price"), part)
                IN  CASE FromPrice(m, part) /\ Literal(m, flat) ->
                           ObjGet(r, flat) = IF KeyIndex(m, "price") < KeyIndex(m, flat)
                                             THEN ObjGet(m, flat)
                                             ELSE min
                      [] FromPrice(m, part) /\ ~Literal(m, flat) -> ObjGet(r, flat) = min
                      [] ~FromPrice(m, part) /\ Literal(m, flat) ->
                           ObjGet(r, flat) = ObjGet(m, flat)
                      [] OTHER -> ~ObjHas(r, flat)

\* the filters were read where the listing holds a navigationId and a price and the
\* query a literal min-price
C9_Witness ==
    /\ last.ev = "getCurrentFilters" /\ last.key = "k1"
    /\ last.result = getCurrentFilters("k1")
    /\ ListingHas(getCurrentListing("k1"), "currentFilters")
    /\ getCurrentListing("k1").currentFilters =
          <<KV("navigationId", JsString("n1")), KV("price", PriceFilter)>>
    /\ query = <<KV("min-price", JsNumber(7))>>
    /\ last.result = <<KV("min-price", JsNumber(7)), KV("max-price", JsNumber(20))>>

(* C10: getTotalPagesCount is ceil(getTotal / getLimit), the least number  *)
(* of pages of getLimit elements that hold getTotal elements, where        *)
(* getTotal is the total of the current listing or 0; total 25 with limit  *)
(* 10 gives 3, total 0 with limit 10 gives 0, and after an initSearch that *)
(* resolved with {total: 3, elements: [a, b, c], page: 1, limit: 10} it is *)
(* 1.                                                                      *)
C10_TotalPagesCount ==
    \A k \in ListingKeys :
       LET n == getTotalPagesCount(k)
           total == IF ListingHas(getCurrentListing(k), "total")
                    THEN getCurrentListing(k).total
                    ELSE 0
       IN  /\ getTotal(k) = total
           /\ getLimit(k) > 0
           /\ n >= 0
           /\ n * getLimit(k) >= total
           /\ n > 0 => (n - 1) * getLimit(k) < total
           /\ (total = 25 /\ getLimit(k) = 10) => n = 3
           /\ (total = 0 /\ getLimit(k) = 10) => n = 0
           /\ (last.ev = "resolved" /\ last.key = k /\ last.op = "initSearch"
                 /\ last.result = ResultShoes)
                 => (getElements(k) = <<1, 2, 3>> /\ getTotal(k) = 3 /\ n = 1)

\* an initial listing of total 25 and limit 10 was set: 3 pages
C10_Witness ==
    /\ last.ev = "setInitialListing" /\ last.key = "k1"
    /\ getTotal("k1") = 25 /\ getLimit("k1") = 10
    /\ getTotalPagesCount("k1") = 3

\* the limit of the current listing and of the search defaults, as present or absent
ListingLimit(k) ==
    IF ListingHas(getCurrentListing(k), "limit")
    THEN JsNumber(getCurrentListing(k).limit)
    ELSE JsUndefined

DefaultLimit(k) == Prop(searchDefaults[k], "limit")

(* C11 as claimed: getLimit is the limit of the current listing whenever   *)
(* it is present (0 included), else the limit of the search defaults       *)
(* whenever that is present (0 included), else 10.                         *)
C11_Original ==
    \A k \in ListingKeys :
       getLimit(k) = IF ListingLimit(k).t = "number" THEN ListingLimit(k).v
                     ELSE IF DefaultLimit(k).t = "number" THEN DefaultLimit(k).v
                     ELSE 10

(* C11 amended: getLimit is the limit of the current listing whenever it   *)
(* is present and not 0, else the limit of the search defaults whenever    *)
(* that is present and not 0, else 10: a limit of 0 counts as absent.      *)
C11_LimitFallback ==
    \A k \in ListingKeys :
       getLimit(k) = IF ListingLimit(k).t = "number" /\ ListingLimit(k).v # 0
                     THEN ListingLimit(k).v
                     ELSE IF DefaultLimit(k).t = "number" /\ DefaultLimit(k).v # 0
                     THEN DefaultLimit(k).v
                     ELSE 10

\* an initial listing of limit 0 was set under defaults of limit 2: the limit is 2
C11_Witness ==
    /\ last.ev = "setInitialListing" /\ last.key = "k1"
    /\ ListingLimit("k1") = JsNumber(0)
    /\ DefaultLimit("k1") = JsNumber(2)
    /\ getLimit("k1") = 2

----------------------------------------------------------------------------
(* SpecMerge: the request initSearch and search pass to searchMethod, over *)
(* the search defaults an instance may be created with and the criteria a  *)
(* caller may pass, nested objects and undefined values included.          *)

SortByName == JsObject(<<KV("field", JsString("name")), KV("order", JsString("asc"))>>)

DefaultsNested ==
    JsObject(<<KV("limit", JsNumber(2)), KV("sort", SortByName),
               KV("term", JsString("t1"))>>)

MergeDefaults == {JsUndefined, DefaultsLimit, DefaultsNested}

MergeCriterias ==
    {<<>>,
     CriteriaPage,
     <<KV("limit", JsNumber(5))>>,
     <<KV("limit", JsUndefined)>>,
     <<KV("query", JsUndefined)>>,
     <<KV("term", JsNull)>>,
     <<KV("sort", JsObject(<<KV("order", JsString("desc"))>>))>>,
     <<KV("sort", JsObject(<<KV("order", JsUndefined), KV("nulls", JsString("last"))>>))>>,
     <<KV("sort", JsString("name-asc"))>>,
     <<KV("limit", JsObject(<<KV("max", JsNumber(5))>>)), KV("p", JsNumber(3))>>}

InitMerge ==
    /\ initialListings = [k \in ListingKeys |-> JsUndefined]
    /\ appliedListings = [k \in ListingKeys |-> JsUndefined]
    /\ loading = [k \in ListingKeys |-> FALSE]
    /\ loadingMore = [k \in ListingKeys |-> FALSE]
    /\ \E defaults \in MergeDefaults :
          searchDefaults = [k \in ListingKeys |-> defaults]
    /\ query = <<>>
    /\ navPending = <<>>
    /\ calls = <<>>
    /\ last = [ev |-> "init", key |-> "none"]

NextMerge ==
    \/ \E criteria \in MergeCriterias : InitSearch("k1", criteria, Unwatched)
    \/ \E criteria \in MergeCriterias :
          Search("k1", criteria, PreventRouteChange, Unwatched)
    \/ \E i \in 1..Len(calls) : InitSearchResolved(i, ResultPage2)
    \/ \E i \in 1..Len(calls) : SearchResolved(i, ResultPage2)
    \/ \E i \in 1..Len(calls) : InitSearchRejected(i, "e1")
    \/ \E i \in 1..Len(calls) : SearchRejected(i, "e1")

SpecMerge == InitMerge /\ [][NextMerge]_vars

\* the keys of an object, as a set
KeySet(o) == {o[i].k : i \in 1..Len(o)}

\* the object a value holds, the empty object when it holds none
ObjectOf(x) == IF x.t = "object" THEN x.v ELSE <<>>

(* r is d with every key path of c overwritten by the value c holds,       *)
(* recursively for objects, whatever the order of the keys; with           *)
(* keepOnUndefined, a key that c holds as undefined and d has keeps the    *)
(* value of d.                                                             *)
RECURSIVE Overwritten(_, _, _, _)
Overwritten(r, d, c, keepOnUndefined) ==
    /\ KeySet(r) = KeySet(d) \cup KeySet(c)
    /\ \A i, j \in 1..Len(r) : i # j => r[i].k # r[j].k
    /\ \A key \in KeySet(r) :
         LET rv == ObjGet(r, key)
             dv == ObjGet(d, key)
             cv == ObjGet(c, key)
         IN  IF ~ObjHas(c, key) THEN rv = dv
             ELSE IF keepOnUndefined /\ cv.t = "undefined" /\ ObjHas(d, key) THEN rv = dv
             ELSE IF cv.t = "object"
                  THEN /\ rv.t = "object"
                       /\ Overwritten(rv.v, ObjectOf(dv), cv.v, keepOnUndefined)
                  ELSE rv = cv

\* a step in which initSearch or search invokes searchMethod
InvokesSearchMethod ==
    /\ StartsCall
    /\ last'.ev = "started"
    /\ last'.via \in {"initSearch", "search"}

(* C12 as claimed: the request initSearch(C) and search(C) pass to         *)
(* searchMethod is the search defaults D with every key path present in C  *)
(* overwritten by the value of C, recursively for nested objects; keys     *)
(* only in D keep their value; the search defaults are not changed.        *)
C12_Original ==
    [][InvokesSearchMethod =>
         /\ \A k \in ListingKeys :
              last'.key = k =>
                 Overwritten(last'.request, ObjectOf(searchDefaults[k]),
                             last'.criteria, FALSE)
         /\ searchDefaults' = searchDefaults]_vars

(* C12 amended: as claimed, except that a key path C holds with the value  *)
(* undefined keeps the value of D when D has it (and is carried over as    *)
(* undefined when D has not).                                              *)
C12_RequestIsDeepMerge ==
    [][InvokesSearchMethod =>
         /\ \A k \in ListingKeys :
              last'.key = k =>
                 Overwritten(last'.request, ObjectOf(searchDefaults[k]),
                             last'.criteria, TRUE)
         /\ searchDefaults' = searchDefaults]_vars

\* search was called with a nested sort holding an undefined order under nested defaults
C12_Witness ==
    /\ last.ev = "started" /\ last.op = "search"
    /\ searchDefaults["k1"] = DefaultsNested
    /\ last.criteria =
          <<KV("sort", JsObject(<<KV("order", JsUndefined), KV("nulls", JsString("last"))>>))>>
    /\ Prop(ObjGet(last.request, "sort"), "order") = JsString("asc")
    /\ Prop(ObjGet(last.request, "sort"), "field") = JsString("name")
    /\ Prop(ObjGet(last.request, "sort"), "nulls") = JsString("last")
    /\ ObjGet(last.request, "limit") = JsNumber(2)

----------------------------------------------------------------------------
(* SpecSuggest: searchSuggestedProducts of the API client, as its test     *)
(* describes it: one POST to the search-suggest endpoint per invocation,   *)
(* the search term in the URL, the criteria as the body, the data of the   *)
(* response returned.  calls holds the POST requests awaiting a response.  *)

SuggestEndpoint == "/store-api/v4/search-suggest"

SuggestCriterias ==
    {JsUndefined,
     JsObject(<<KV("query", JsString("searchTerm")), KV("limit", JsNumber(10)),
                KV("p", JsNumber(1))>>),
     JsObject(<<KV("query", JsString("shoes"))>>),
     JsObject(<<KV("query", JsString("shoes")), KV("p", JsNumber(2))>>),
     JsObject(<<KV("query", JsString("searchTerm"))>>),
     JsObject(<<KV("query", JsString("")), KV("limit", JsNumber(10))>>)}

SuggestResponses ==
    {[data |-> [apiAlias |-> "product_listing"]],
     [data |-> [apiAlias |-> "product_listing", total |-> 3]]}

\* the search term of the URL: the query of the criteria, "" without criteria
SuggestTerm(criteria) ==
    IF Prop(criteria, "query").t = "string" THEN Prop(criteria, "query").v ELSE ""

\* Faulty variant: the POST carries only the query of the criteria as its body.
searchSuggestedProductsPostsQueryOnly(criteria) ==
    /\ Len(calls) < MaxPending
    /\ calls' = Append(calls,
                       [op |-> "searchSuggestedProducts",
                        url |-> SuggestEndpoint \o "?search=" \o SuggestTerm(criteria),
                        body |-> JsObject(<<KV("query", Prop(criteria, "query"))>>)])
    /\ last' = [ev |-> "started", key |-> "none", op |-> "searchSuggestedProducts",
                criteria |-> criteria]
    /\ UNCHANGED <<initialListings, appliedListings, loading, loadingMore,
                   searchDefaults, query, navPending>>

\* up to the await: invoke.post(url, criteria)
searchSuggestedProducts(criteria) ==
    /\ Len(calls) < MaxPending
    /\ calls' = Append(calls,
                       [op |-> "searchSuggestedProducts",
                        url |-> SuggestEndpoint \o "?search=" \o SuggestTerm(criteria),
                        body |-> criteria])
    /\ last' = [ev |-> "started", key |-> "none", op |-> "searchSuggestedProducts",
                criteria |-> criteria]
    /\ UNCHANGED <<initialListings, appliedListings, loading, loadingMore,
                   searchDefaults, query, navPending>>

SearchSuggestedProducts(criteria) == searchSuggestedProducts(criteria)

\* the POST got its response: its data is returned
SearchSuggestedProductsResolved(i, response) ==
    /\ calls' = RemoveAt(calls, i)
    /\ last' = [ev |-> "resolved", key |-> "none", op |-> "searchSuggestedProducts",
                call |-> calls[i], returned |-> response.data]
    /\ UNCHANGED <<initialListings, appliedListings, loading, loadingMore,
                   searchDefaults, query, navPending>>

NextSuggest ==
    \/ \E criteria \in SuggestCriterias : SearchSuggestedProducts(criteria)
    \/ \E i \in 1..Len(calls), response \in SuggestResponses :
          SearchSuggestedProductsResolved(i, response)

SpecSuggest == Init /\ [][NextSuggest]_vars

(* C13: every invocation of searchSuggestedProducts(criteria) issues       *)
(* exactly one POST, to "/store-api/v4/search-suggest?search=" followed by *)
(* the query of the criteria, with the criteria unchanged as the body, and *)
(* returns the data of the response; with undefined criteria the search    *)
(* term is empty and the body undefined.                                   *)
C13_SuggestPostsOnce ==
    [][/\ (last'.ev = "started" /\ StartsCall) =>
            /\ Len(calls') = Len(calls) + 1
            /\ SubSeq(calls', 1, Len(calls)) = calls
            /\ calls'[Len(calls')].body = last'.criteria
            /\ \A term \in {"searchTerm", "shoes", ""} :
                 Prop(last'.criteria, "query") = JsString(term) =>
                    calls'[Len(calls')].url = "/store-api/v4/search-suggest?search=" \o term
            /\ last'.criteria = JsUndefined =>
                 /\ calls'[Len(calls')].url = "/store-api/v4/search-suggest?search="
                 /\ calls'[Len(calls')].body = JsUndefined
       /\ (last'.ev = "resolved" /\ SettlesCall) =>
            /\ Len(calls') = Len(calls) - 1
            /\ \E response \in SuggestResponses : last'.returned = response.data]_vars

\* the call of the test was made and its response returned
C13_Witness ==
    /\ last.ev = "resolved" /\ last.op = "searchSuggestedProducts"
    /\ last.call.url = "/store-api/v4/search-suggest?search=searchTerm"
    /\ last.call.body = JsObject(<<KV("query", JsString("searchTerm")),
                                   KV("limit", JsNumber(10)), KV("p", JsNumber(1))>>)
    /\ last.returned = [apiAlias |-> "product_listing"]

----------------------------------------------------------------------------
(* SpecLoadMore: loadMore calls, overlapping ones included, on a listing   *)
(* set by setInitialListing or search, under a navigation query a search   *)
(* may have replaced.                                                      *)

NextLoadMore ==
    \/ SetInitialListing("k1", ResultPage1)
    \/ Search("k1", CriteriaPage, JsUndefined, Unwatched)
    \/ LoadMore("k1", Unwatched)
    \/ \E i \in 1..Len(calls), result \in Results : SearchResolved(i, result)
    \/ \E i \in 1..Len(calls), result \in Results : LoadMoreResolved(i, result)
    \/ \E i \in 1..Len(calls) : LoadMoreRejected(i, "e1")
    \/ RouterConfirm

SpecLoadMore == Init /\ [][NextLoadMore]_vars

\* the navigation query with p set to n, the other keys as they are
QueryWithPage(n) ==
    IF \E i \in 1..Len(query) : query[i].k = "p"
    THEN [i \in 1..Len(query) |->
             IF query[i].k = "p" THEN KV("p", JsNumber(n)) ELSE query[i]]
    ELSE Append(query, KV("p", JsNumber(n)))

\* the page of the current listing of k, 1 when it has none (or 0)
ListingPage(k) ==
    IF ListingHas(getCurrentListing(k), "page") /\ getCurrentListing(k).page # 0
    THEN getCurrentListing(k).page
    ELSE 1

\* a step in which loadMore invokes searchMethod
LoadMoreInvokesSearchMethod == StartsCall /\ last'.ev = "started" /\ last'.op = "loadMore"

(* C14 as claimed: the request of loadMore is the search defaults merged   *)
(* with the navigation query in which p is the page of the navigation      *)
(* query plus one (stated where the navigation query holds a page).        *)
C14_Original ==
    [][(LoadMoreInvokesSearchMethod /\ ObjGet(query, "p").t = "number") =>
         \A k \in ListingKeys :
            last'.key = k =>
               Overwritten(last'.request, ObjectOf(searchDefaults[k]),
                           QueryWithPage(ObjGet(query, "p").v + 1), TRUE)]_vars

(* C14 amended: the request of loadMore is the search defaults merged with *)
(* the navigation query in which p is the page of the current listing (1   *)
(* when it has none) plus one; and a loadMore that resolves with a result  *)
(* of page n makes n the page of the current listing, so that the next     *)
(* loadMore asks for page n + 1.                                           *)
C14_NextPageFromListing ==
    [][\A k \in ListingKeys :
         /\ (LoadMoreInvokesSearchMethod /\ last'.key = k) =>
               Overwritten(last'.request, ObjectOf(searchDefaults[k]),
                           QueryWithPage(ListingPage(k) + 1), TRUE)
         /\ (SettlesCall /\ last'.ev = "resolved" /\ last'.op = "loadMore"
               /\ last'.key = k /\ last'.result.page # 0) =>
               /\ ListingPage(k)' = last'.result.page
               /\ ObjGet(MergeCriteria(searchDefaults[k], loadMoreQuery(k)), "p")'
                    = JsNumber(last'.result.page + 1)]_vars

\* loadMore was called on a listing of page 1 under a navigation query of p = 2: it asks
\* for page 2
C14_Witness ==
    /\ last.ev = "started" /\ last.op = "loadMore" /\ last.key = "k1"
    /\ ObjGet(query, "p") = JsNumber(2)
    /\ ListingHas(getCurrentListing("k1"), "page") /\ ListingPage("k1") = 1
    /\ ObjGet(last.request, "p") = JsNumber(2)

----------------------------------------------------------------------------
(* SpecRoute: searches that change the route, overlapping ones included,   *)
(* with the router confirming or failing each replace at any time.         *)

NextRoute ==
    \/ \E options \in {JsUndefined, AllowRouteChange} :
          Search("k1", CriteriaPage, options, WatchArgs)
    \/ \E i \in 1..Len(calls), result \in Results : SearchResolved(i, result)
    \/ \E i \in 1..Len(calls), error \in Errors : SearchRejected(i, error)
    \/ RouterConfirm
    \/ RouterAbort

SpecRoute == Init /\ [][NextRoute]_vars

(* C15: a navigation replace that fails or is cancelled never aborts the   *)
(* search that requested it.  A search without preventRouteChange invokes  *)
(* searchMethod with the merged criteria in the step that requests the     *)
(* replace; a replace that fails, is confirmed or is superseded leaves     *)
(* every pending call, the loading flag and the listings as they are and   *)
(* reports nothing to a caller; and whatever became of the replace, every  *)
(* pending search can resolve with any result, which is then committed as  *)
(* the applied listing with loading reset, and rejects only with the error *)
(* of searchMethod.                                                        *)
C15_NavigationFailureIgnored ==
    [][/\ (StartsCall /\ last'.op = "search" /\ ChangeRoute(last'.options)) =>
             /\ Len(calls') = Len(calls) + 1
             /\ calls'[Len(calls')].op = "search"
             /\ \A k \in ListingKeys :
                  last'.key = k =>
                     Overwritten(last'.request, ObjectOf(searchDefaults[k]),
                                 last'.criteria, TRUE)
       /\ last'.ev \in {"routerAbort", "routerConfirm"} =>
             /\ calls' = calls
             /\ loading' = loading
             /\ initialListings' = initialListings
             /\ appliedListings' = appliedListings
       /\ \A i \in 1..Len(calls), result \in Results :
             calls[i].op = "search" => ENABLED SearchResolved(i, result)
       /\ (SettlesCall /\ last'.op = "search") =>
             /\ last'.ev = "resolved" =>
                  /\ appliedListings'[last'.key] = JsObject(last'.result)
                  /\ loading'[last'.key] = FALSE
             /\ last'.ev = "rejected" =>
                  /\ last'.thrown = last'.error
                  /\ last'.error \in Errors]_vars

\* the replace requested by the only pending search has failed: the search still awaits
\* searchMethod, loading is set and the navigation query is not its criteria
C15_Witness ==
    /\ last.ev = "routerAbort" /\ last.key = "k1"
    /\ navPending = <<>>
    /\ Len(calls) = 1 /\ calls[1].op = "search" /\ calls[1].key = "k1"
    /\ ChangeRoute(calls[1].note.args[1].options)
    /\ query # calls[1].note.args[1].criteria
    /\ loading["k1"]
    /\ \A result \in Results : ENABLED SearchResolved(1, result)

----------------------------------------------------------------------------
(* SpecSugar: changeCurrentPage and changeCurrentSortingOrder over the     *)
(* page numbers and orders a caller may pass, falsy ones included, under   *)
(* the navigation queries earlier calls have set.                          *)

SugarPageNumbers == {JsUndefined, JsNumber(0), JsNumber(2), JsString(""), JsString("3")}

SugarOrders == {JsString("price-desc")}

NextSugar ==
    \/ Search("k1", CriteriaPage, JsUndefined, Unwatched)
    \/ \E pageNumber \in SugarPageNumbers : ChangeCurrentPage("k1", pageNumber, Unwatched)
    \/ \E order \in SugarOrders : ChangeCurrentSortingOrder("k1", order, Unwatched)
    \/ \E i \in 1..Len(calls) : SearchResolved(i, ResultPage2)
    \/ \E i \in 1..Len(calls) : SearchRejected(i, "e1")
    \/ RouterConfirm

SpecSugar == Init /\ [][NextSugar]_vars

\* the navigation query with key set to value, the other keys as they are
QueryWith(key, value) ==
    IF \E i \in 1..Len(query) : query[i].k = key
    THEN [i \in 1..Len(query) |-> IF query[i].k = key THEN KV(key, value) ELSE query[i]]
    ELSE Append(query, KV(key, value))

\* the step is what search(Q) with route change enabled does on key k
StepOfSearch(k, Q) ==
    /\ last'.ev = "started" /\ last'.op = "search" /\ last'.key = k
    /\ last'.criteria = Q
    /\ last'.options = JsUndefined
    /\ Overwritten(last'.request, ObjectOf(searchDefaults[k]), Q, TRUE)
    /\ navPending' = <<[key |-> k, query |-> Q]>>
    /\ loading' = [loading EXCEPT ![k] = TRUE]
    /\ Len(calls') = Len(calls) + 1
    /\ SubSeq(calls', 1, Len(calls)) = calls
    /\ calls'[Len(calls')].op = "search" /\ calls'[Len(calls')].key = k
    /\ UNCHANGED <<initialListings, appliedListings, loadingMore, searchDefaults, query>>

(* C16 as claimed: changeCurrentSortingOrder(order) does what search(Q)    *)
(* with route change enabled does, Q the navigation query with order       *)
(* overwritten, and changeCurrentPage(pageNumber) what search(Q) does, Q   *)
(* the navigation query with p overwritten by pageNumber ?? 1: the page    *)
(* number whenever one is supplied, 1 only when it is absent.              *)
C16_Original ==
    [][/\ \A order \in SugarOrders :
            ChangeCurrentSortingOrder("k1", order, Unwatched) =>
               StepOfSearch("k1", QueryWith("order", order))
       /\ \A pageNumber \in SugarPageNumbers :
            ChangeCurrentPage("k1", pageNumber, Unwatched) =>
               StepOfSearch("k1", QueryWith("p", IF pageNumber.t \in {"undefined", "null"}
                                                  THEN JsNumber(1)
                                                  ELSE pageNumber))]_vars

(* C16 amended: as claimed, with p overwritten by pageNumber || 1: the     *)
(* page number whenever it is truthy, 1 when it is absent, 0 or the empty  *)
(* string.                                                                 *)
C16_ChangeIsSearch ==
    [][/\ \A order \in SugarOrders :
            ChangeCurrentSortingOrder("k1", order, Unwatched) =>
               StepOfSearch("k1", QueryWith("order", order))
       /\ \A pageNumber \in SugarPageNumbers :
            ChangeCurrentPage("k1", pageNumber, Unwatched) =>
               StepOfSearch("k1", QueryWith("p", IF Truthy(pageNumber)
                                                  THEN pageNumber
                                                  ELSE JsNumber(1)))]_vars

\* changeCurrentPage was called under the query {p: 2, order}: order is carried over and
\* p is 1, as for the page numbers undefined, 0 and ""
C16_Witness ==
    /\ last.ev = "started" /\ last.via = "changeCurrentPage"
    /\ query = CriteriaPage
    /\ last.criteria = <<KV("p", JsNumber(1)), KV("order", JsString("name-asc"))>>
    /\ navPending = <<[key |-> "k1", query |-> last.criteria]>>

----------------------------------------------------------------------------
(* SpecFlags: initSearch, search and loadMore calls on one key, with every *)
(* searchMethod call resolving or rejecting in the end: the call that has  *)
(* waited longest is not left waiting forever.                             *)

NextFlags ==
    \/ InitSearch("k1", CriteriaPage, Unwatched)
    \/ Search("k1", CriteriaPage, PreventRouteChange, Unwatched)
    \/ LoadMore("k1", Unwatched)
    \/ Settle({ResultPage2}, {"e1"})

\* the searchMethod call that was invoked first among the pending ones settles
SettleOldest ==
    /\ calls # <<>>
    /\ \/ InitSearchResolved(1, ResultPage2)
       \/ SearchResolved(1, ResultPage2)
       \/ LoadMoreResolved(1, ResultPage2)
       \/ InitSearchRejected(1, "e1")
       \/ SearchRejected(1, "e1")
       \/ LoadMoreRejected(1, "e1")

SpecFlags == Init /\ [][NextFlags]_vars /\ WF_vars(SettleOldest)

\* a call of one of the functions ops on key k awaits searchMethod
Pending(k, ops) == \E i \in 1..Len(calls) : calls[i].key = k /\ calls[i].op \in ops

(* C17: the flags are always released.  Whenever no initSearch or search   *)
(* call of a key is pending its loading is false, and whenever no loadMore *)
(* call is pending its loadingMore is false; initSearch and search never   *)
(* change loadingMore and loadMore never changes loading; and, every       *)
(* searchMethod call settling in the end, the call that has waited longest *)
(* always ends and each flag that is set returns to false.                 *)
C17_FlagsReleased ==
    /\ [](\A k \in ListingKeys :
             /\ ~Pending(k, {"initSearch", "search"}) => ~loading[k]
             /\ ~Pending(k, {"loadMore"}) => ~loadingMore[k])
    /\ [][last'.ev \in {"started", "resolved", "rejected"} =>
             /\ last'.op \in {"initSearch", "search"} => loadingMore' = loadingMore
             /\ last'.op = "loadMore" => loading' = loading]_vars
    /\ \A op \in Functions :
          (calls # <<>> /\ calls[1].op = op)
             ~> (last.ev \in {"resolved", "rejected"} /\ last.op = op)
    /\ \A k \in ListingKeys :
          /\ loading[k] ~> ~loading[k]
          /\ loadingMore[k] ~> ~loadingMore[k]

\* searchMethod rejected the last pending call, a loadMore: both flags are released
C17_Witness ==
    /\ last.ev = "rejected" /\ last.op = "loadMore" /\ last.key = "k1"
    /\ calls = <<>>
    /\ ~loading["k1"] /\ ~loadingMore["k1"]
    /\ appliedListings["k1"].t = "object"

----------------------------------------------------------------------------
(* C18 as claimed: loading is true whenever an initSearch or search call   *)
(* of the key is pending, and loadingMore whenever a loadMore call is.     *)
C18_Original ==
    \A k \in ListingKeys :
       /\ Pending(k, {"initSearch", "search"}) => loading[k]
       /\ Pending(k, {"loadMore"}) => loadingMore[k]

(* C18 amended: each flag follows the latest event of its kind.  A call    *)
(* that starts sets the flag of its kind, a call that ends (resolved or    *)
(* rejected) clears it, also while other calls of the kind are pending,    *)
(* and no other step changes it; so the flag is true while a single call   *)
(* is pending, and after a call that overlapped with others has ended it   *)
(* is false until the next one starts.                                     *)
C18_FlagFollowsLatestEvent ==
    [][\A k \in ListingKeys, op \in Functions :
         IF last'.ev \in {"started", "resolved", "rejected"}
               /\ last'.key = k
               /\ (last'.op = "loadMore") = (op = "loadMore")
         THEN Flag(k, op)' = (last'.ev = "started")
         ELSE Flag(k, op)' = Flag(k, op)]_vars

\* of two overlapping searches one has resolved: loading is false, the other is pending
C18_Witness ==
    /\ last.ev = "resolved" /\ last.op = "search" /\ last.key = "k1"
    /\ Pending("k1", {"search"})
    /\ ~loading["k1"]

----------------------------------------------------------------------------
(* SpecPaging: loadMore calls only, overlapping ones included, on a key    *)
(* whose initial listing is set at most once, before them, and on a key    *)
(* without initial listing; searchMethod answers the request for page n    *)
(* with page n, whose one element is n.                                    *)

WatchAll == {"args", "store"}

PageOf(n) == [elements |-> <<n>>, page |-> n, total |-> 4]

\* the page a pending call asked searchMethod for
RequestedPage(c) == ObjGet(c.note.args[1].request, "p").v

FirstListing ==
    /\ initialListings["k1"] = JsUndefined
    /\ calls = <<>>
    /\ SetInitialListing("k1", PageOf(1))

NextPaging ==
    \/ FirstListing
    \/ \E k \in ListingKeys : LoadMore(k, WatchAll)
    \/ \E i \in 1..Len(calls) : LoadMoreResolved(i, PageOf(RequestedPage(calls[i])))
    \/ \E i \in 1..Len(calls), error \in Errors : LoadMoreRejected(i, error)

SpecPaging == Init /\ [][NextPaging]_vars

\* every page at most once and in increasing order (the element of page n is n)
PagesOnceInOrder(elements) ==
    \A i, j \in 1..Len(elements) : i < j => elements[i] < elements[j]

(* C19 as claimed: whatever the interleaving of the loadMore calls, the    *)
(* elements of the current listing hold each page at most once, in         *)
(* increasing page order.                                                  *)
C19_Original == \A k \in ListingKeys : PagesOnceInOrder(getElements(k))

(* C19 amended: a loadMore that resolves when the store is as it was when  *)
(* the call started (no other loadMore has committed in between, as for    *)
(* calls that do not overlap) appends the page after the current one:      *)
(* elements that held each page once and in order still do, with the       *)
(* requested page last, and the page of the listing is the requested one.  *)
(* (A loadMore that overlapped with one that committed appends the page it *)
(* asked for all the same, a second time.)                                 *)
C19_NonOverlappingLoadMoreInOrder ==
    [][\A k \in ListingKeys :
         (SettlesCall /\ last'.ev = "resolved" /\ last'.op = "loadMore" /\ last'.key = k) =>
            LET c == last'.call
                p == RequestedPage(c)
            IN  /\ getElements(k)' = getElements(k) \o <<p>>
                /\ (/\ c.note.before[1] = [initial |-> initialListings[k],
                                           applied |-> appliedListings[k]]
                    /\ PagesOnceInOrder(getElements(k))
                    /\ \A i \in 1..Len(getElements(k)) : getElements(k)[i] <= ListingPage(k))
                   => /\ PagesOnceInOrder(getElements(k)')
                      /\ p = ListingPage(k) + 1
                      /\ ListingPage(k)' = p
                      /\ \A i \in 1..Len(getElements(k)') :
                            getElements(k)'[i] <= ListingPage(k)']_vars

\* page 2 was loaded onto the initial listing of page 1 by a loadMore that found the store
\* as it was when it started
C19_Witness ==
    /\ last.ev = "resolved" /\ last.op = "loadMore" /\ last.key = "k1"
    /\ last.call.note.before[1].initial = JsObject(PageOf(1))
    /\ last.call.note.before[1].applied = JsNull
    /\ getElements("k1") = <<1, 2>>
    /\ ListingPage("k1") = 2

----------------------------------------------------------------------------
(* C20: the initial listing of a key changes only in a setInitialListing   *)
(* step or in the resolution of an initSearch of that key, and is the      *)
(* listing assigned then; no step of search, loadMore, changeCurrentPage   *)
(* or changeCurrentSortingOrder, started, resolved or rejected, and no     *)
(* step of the router changes it.  A loadMore that resolves while only an  *)
(* initial listing exists leaves it as it is and stores its elements       *)
(* followed by those of the result in the applied listing.                 *)
C20_InitialListingFrame ==
    [][\A k \in ListingKeys :
         /\ initialListings'[k] # initialListings[k] =>
               /\ last'.key = k
               /\ \/ /\ last'.ev = "setInitialListing"
                     /\ initialListings'[k] = JsObject(last'.listing)
                  \/ /\ last'.ev = "resolved" /\ last'.op = "initSearch"
                     /\ initialListings'[k] = JsObject(last'.result)
         /\ (SettlesCall /\ last'.ev = "resolved" /\ last'.op = "loadMore"
               /\ last'.key = k /\ initialListings[k].t = "object"
               /\ ~Truthy(appliedListings[k])) =>
               /\ initialListings'[k] = initialListings[k]
               /\ appliedListings'[k].t = "object"
               /\ appliedListings'[k].v.elements =
                     (IF ListingHas(initialListings[k].v, "elements")
                      THEN initialListings[k].v.elements
                      ELSE <<>>) \o last'.result.elements]_vars

\* page 2 was loaded while only the initial listing of page 1 existed: the initial listing
\* still holds page 1 alone, the applied one both pages
C20_Witness ==
    /\ last.ev = "resolved" /\ last.op = "loadMore" /\ last.key = "k1"
    /\ ~last.hadApplied
    /\ last.result = ResultPage2
    /\ initialListings["k1"] = JsObject(ResultPage1)
    /\ appliedListings["k1"].t = "object"
    /\ appliedListings["k1"].v.elements = <<1, 2>>

====
